---- MODULE Spec2Model ----
(***************************************************************************)
(* A model of the afero adapter for CephFS (package cephfs).               *)
(*                                                                         *)
(* The remote filesystem is a tree of nodes reached through the go-ceph    *)
(* mount.  The adapter's operations (RemoveAll, Stat, Rename, Create,      *)
(* Open, OpenFile, the handle's Readdir, Readdirnames and Close) are       *)
(* translated from the source; each is one action.  The remote client is   *)
(* an external collaborator: its primitives are modelled with POSIX        *)
(* semantics, and a call of a primitive can fail with an injected I/O      *)
(* error.                                                                  *)
(*                                                                         *)
(* The source holds two variants of the adapter.  Variant "A" is the       *)
(* handle with two capabilities (file, dir); variant "B" is the handle     *)
(* that embeds the remote file and lists directories through listFromDir.  *)
(***************************************************************************)
EXTENDS Integers, Sequences, FiniteSets, TLC

VARIABLES fs, h, op, ret, pre, calls, data

vars == <<fs, h, op, ret, pre, calls, data>>

----------------------------------------------------------------------------
(* Bounds of the model *)

\* largest number of nodes in the remote tree (besides the root)
MaxNodes == 3

\* largest count handed to Readdir / Readdirnames
MaxCount == 2

\* symbolic links followed in one path resolution before the remote
\* client gives up with ELOOP
MaxLinks == 2

\* largest number of bytes in a file and in a buffer written
MaxLen == 2

----------------------------------------------------------------------------
(* Paths *)

Names == {"a", "b"}

Dot == "."

DotDot == ".."

Root == <<>>

\* the canonical paths of the nodes the remote tree can hold
Paths ==
    {<<x>> : x \in Names}
        \cup {<<x, y>> : x \in Names, y \in Names}
        \cup {<<x, y, z>> : x \in Names, y \in Names, z \in Names}

\* where a symbolic link may point
LinkTargets == {<<x>> : x \in Names}

Parent(p) == SubSeq(p, 1, Len(p) - 1)

\* path + "/" + name
Join(path, name) == Append(path, name)

IsPrefix(p, q) == Len(p) <= Len(q) /\ SubSeq(q, 1, Len(p)) = p

\* q is p or lies below p
Under(p, q) == IsPrefix(p, q)

----------------------------------------------------------------------------
(* Errors.  An error is the set of errors it wraps (what errors.Is finds)  *)
(* and the chain of messages fmt.Errorf put around them, outermost first.  *)

NoErr == [wraps |-> {}, ctx |-> <<>>]

NewErr(code) == [wraps |-> {code}, ctx |-> <<>>]

\* fmt.Errorf("tag: %w", e)
Wrap(tag, e) == [wraps |-> e.wraps, ctx |-> <<tag>> \o e.ctx]

\* fmt.Errorf("tag; %w; %w", e1, e2)
Wrap2(tag, e1, e2) == [wraps |-> e1.wraps \cup e2.wraps, ctx |-> <<tag>>]

\* errors.Is(e, code)
Is(e, code) == code \in e.wraps

\* the remote client's errors (go-ceph's cephFSError values)
ENOENT == "ENOENT"
EEXIST == "EEXIST"
ENOTDIR == "ENOTDIR"
EISDIR == "EISDIR"
ENOTEMPTY == "ENOTEMPTY"
EINVAL == "EINVAL"
ELOOP == "ELOOP"
EIO == "EIO"

\* the generic errors of package os and io
OsErrNotExist == "os.ErrNotExist"
OsErrExist == "os.ErrExist"
IoEOF == "io.EOF"

\* the handle's precondition errors
ErrFileNil == "ErrFileNil"
ErrDirNil == "ErrDirNil"

\* os.IsNotExist(e): the error itself, not one wrapped by fmt.Errorf
OsIsNotExist(e) == e.ctx = <<>> /\ e.wraps = {OsErrNotExist}

convertErr(e) ==
    IF e = NoErr THEN NoErr
    ELSE IF Is(e, ENOENT) THEN NewErr(OsErrNotExist)
    ELSE IF Is(e, EEXIST) THEN NewErr(OsErrExist)
    ELSE e

----------------------------------------------------------------------------
(* The remote tree *)

NoNode == [kind |-> "none", target |-> Root]

RegNode == [kind |-> "reg", target |-> Root]

DirNode == [kind |-> "dir", target |-> Root]

\* a node that is neither a regular file, a directory nor a link (a fifo)
OtherNode == [kind |-> "other", target |-> Root]

LnkNode(t) == [kind |-> "lnk", target |-> t]

LeafNodes == {RegNode, DirNode, OtherNode} \cup {LnkNode(t) : t \in LinkTargets}

Exists(f, p) == p \in Paths /\ f[p].kind # "none"

KindAt(f, p) == IF p = Root THEN "dir" ELSE f[p].kind

Nodes(f) == {p \in Paths : f[p].kind # "none"}

\* the names of the entries of directory d
Children(f, d) == {n \in Names : Join(d, n) \in Paths /\ f[Join(d, n)].kind # "none"}

\* every node's parent is a directory
WellFormed(f) ==
    \A p \in Nodes(f) : KindAt(f, Parent(p)) = "dir"

Shapes ==
    {S \in SUBSET Paths :
        /\ Cardinality(S) <= MaxNodes
        /\ \A p \in S : Parent(p) = Root \/ Parent(p) \in S}

Inner(S) == {p \in S : \E q \in S : Parent(q) = p}

Trees ==
    UNION {
        {[p \in Paths |->
            IF p \in Inner(S) THEN DirNode
            ELSE IF p \in S THEN k[p]
            ELSE NoNode] : k \in [S \ Inner(S) -> LeafNodes]}
        : S \in Shapes}

----------------------------------------------------------------------------
(* Path resolution by the remote client *)

ResOk(p) == [err |-> NoErr, path |-> p, missing |-> FALSE]

\* the last component does not exist, its directory does
ResMissing(p) == [err |-> NewErr(ENOENT), path |-> p, missing |-> TRUE]

ResErr(code) == [err |-> NewErr(code), path |-> Root, missing |-> FALSE]

RECURSIVE Walk(_, _, _, _, _)
\* cur: the directory reached; rest: the components still to resolve;
\* follow: whether a link in the last component is followed
Walk(f, cur, rest, follow, fuel) ==
    IF rest = <<>> THEN ResOk(cur)
    ELSE
        LET c == Head(rest)
            more == Tail(rest)
            p == Join(cur, c)
        IN  IF c = Dot THEN Walk(f, cur, more, follow, fuel)
            ELSE IF c = DotDot THEN
                Walk(f, IF cur = Root THEN Root ELSE Parent(cur), more, follow, fuel)
            ELSE IF ~Exists(f, p) THEN
                IF more = <<>> /\ p \in Paths THEN ResMissing(p) ELSE ResErr(ENOENT)
            ELSE IF f[p].kind = "lnk" /\ (more # <<>> \/ follow) THEN
                IF fuel = 0 THEN ResErr(ELOOP)
                ELSE Walk(f, Root, f[p].target \o more, follow, fuel - 1)
            ELSE IF more # <<>> /\ f[p].kind # "dir" THEN ResErr(ENOTDIR)
            ELSE Walk(f, p, more, follow, fuel)

Resolve(f, path, follow) == Walk(f, Root, path, follow, MaxLinks)

----------------------------------------------------------------------------
(* Injected failures.  One call of the remote client, named by the         *)
(* primitive, the path handed to it and (for a directory read) the number  *)
(* of the read, fails with an I/O error.  The operations below stop at the *)
(* first failed call, so one failure per operation covers every case.      *)

NoFault == [fn |-> "none", path |-> Root, nth |-> 0]

Faulted(fault, fn, path) == fault.fn = fn /\ fault.path = path

FaultedRead(fault, path, nth) ==
    fault.fn = "ReadDir" /\ fault.path = path /\ fault.nth = nth

\* one call of the remote client, as logged by the operation that made it
\* with the error the call gave
Call(fn, path, e) == [fn |-> fn, path |-> path, err |-> e]

----------------------------------------------------------------------------
(* The remote client's primitives (go-ceph's MountInfo, File, Directory)   *)

\* MountInfo.Statx(path, StatxBasicStats, 0): follows links
Statx(f, path, fault) ==
    IF Faulted(fault, "Statx", path) THEN [err |-> NewErr(EIO), kind |-> "none"]
    ELSE
        LET r == Resolve(f, path, TRUE)
        IN  IF r.err # NoErr THEN [err |-> r.err, kind |-> "none"]
            ELSE [err |-> NoErr, kind |-> KindAt(f, r.path)]

\* MountInfo.Unlink(path): removes the entry itself, never what a link names
Unlink(f, path, fault) ==
    IF Faulted(fault, "Unlink", path) THEN [err |-> NewErr(EIO), fs |-> f]
    ELSE
        LET r == Resolve(f, path, FALSE)
        IN  IF r.err # NoErr THEN [err |-> r.err, fs |-> f]
            ELSE IF KindAt(f, r.path) = "dir" THEN [err |-> NewErr(EISDIR), fs |-> f]
            ELSE [err |-> NoErr, fs |-> [f EXCEPT ![r.path] = NoNode]]

\* MountInfo.RemoveDir(path): an empty directory only
RemoveDir(f, path, fault) ==
    IF Faulted(fault, "RemoveDir", path) THEN [err |-> NewErr(EIO), fs |-> f]
    ELSE
        LET r == Resolve(f, path, FALSE)
        IN  IF r.err # NoErr THEN [err |-> r.err, fs |-> f]
            ELSE IF KindAt(f, r.path) # "dir" THEN [err |-> NewErr(ENOTDIR), fs |-> f]
            ELSE IF r.path = Root THEN [err |-> NewErr(EINVAL), fs |-> f]
            ELSE IF Children(f, r.path) # {} THEN [err |-> NewErr(ENOTEMPTY), fs |-> f]
            ELSE [err |-> NoErr, fs |-> [f EXCEPT ![r.path] = NoNode]]

\* the d_type the remote client reports for an entry
DType(kind) == kind

DirEntry(name, dtype) == [name |-> name, dtype |-> dtype]

\* the orders in which the remote client may yield the entries of a
\* directory: every order of the names, with the two pseudo-entries
\* together ("." first) at any place among them
EntryNames == Names \cup {Dot, DotDot}

Orders ==
    {o \in [1..Cardinality(EntryNames) -> EntryNames] :
        /\ \A i, j \in DOMAIN o : o[i] = o[j] => i = j
        /\ \E i \in DOMAIN o : o[i] = Dot /\ i + 1 \in DOMAIN o /\ o[i + 1] = DotDot}

InDir(f, d, n) == n \in {Dot, DotDot} \/ n \in Children(f, d)

\* the entry stream of directory d: "." and "..", and one entry per child
Stream(f, d, ord) ==
    LET SelectNames == SelectSeq(ord, LAMBDA n : InDir(f, d, n))
    IN  [i \in DOMAIN SelectNames |->
            IF SelectNames[i] \in {Dot, DotDot} THEN DirEntry(SelectNames[i], "dir")
            ELSE DirEntry(SelectNames[i], DType(f[Join(d, SelectNames[i])].kind))]

\* MountInfo.OpenDir(path): follows links; the stream is read entry by entry
OpenDir(f, path, ord, fault) ==
    IF Faulted(fault, "OpenDir", path) THEN [err |-> NewErr(EIO), stream |-> <<>>]
    ELSE
        LET r == Resolve(f, path, TRUE)
        IN  IF r.err # NoErr THEN [err |-> r.err, stream |-> <<>>]
            ELSE IF KindAt(f, r.path) # "dir" THEN [err |-> NewErr(ENOTDIR), stream |-> <<>>]
            ELSE [err |-> NoErr, stream |-> Stream(f, r.path, ord)]

----------------------------------------------------------------------------
(* Fs.Stat, Fs.Remove, Fs.RemoveAll *)

\* FileInfo.IsDir(): toFileMode(stat.Mode).IsDir()
IsDir(kind) == kind = "dir"

\* Stat handing on the error of the remote as it is
StatRawErr(f, path, fault) ==
    LET st == Statx(f, path, fault)
    IN  IF st.err # NoErr THEN [err |-> st.err, kind |-> "none"]
        ELSE [err |-> NoErr, kind |-> st.kind]

Stat(f, path, fault) ==
    LET st == Statx(f, path, fault)
    IN  IF st.err # NoErr THEN
            IF Is(st.err, ENOENT) THEN [err |-> NewErr(OsErrNotExist), kind |-> "none"]
            ELSE [err |-> st.err, kind |-> "none"]
        ELSE [err |-> NoErr, kind |-> st.kind]

Remove(f, path, fault) ==
    LET u == Unlink(f, path, fault)
    IN  [err |-> convertErr(u.err), fs |-> u.fs]

\* what an operation on the tree gives: the tree after it, its error and
\* the remote calls it made, in order
Out(f, e, cs) == [fs |-> f, err |-> e, calls |-> cs]

\* F(v), with v evaluated once
Bind(v, F(_)) == CHOOSE y \in {F(r) : r \in {v}} : TRUE

RECURSIVE forDirItem(_, _, _, _, _, _)
RECURSIVE RemoveAllItem(_, _, _, _, _)
RECURSIVE RemoveAll(_, _, _, _)

\* the callback, dropping the error of a failed Unlink
RemoveAllItemDropsErr(f, path, de, ord, fault) ==
    IF de.name = Dot \/ de.name = DotDot THEN Out(f, NoErr, <<>>)
    ELSE
        LET fullPath == Join(path, de.name)
        IN  IF de.dtype = "dir" THEN RemoveAll(f, fullPath, ord, fault)
            ELSE
                LET u == Unlink(f, fullPath, fault)
                IN  Out(u.fs, NoErr, <<Call("Unlink", fullPath, u.err)>>)

\* the callback RemoveAll hands to forDirItem, for the entry de of path
RemoveAllItem(f, path, de, ord, fault) ==
    IF de.name = Dot \/ de.name = DotDot THEN Out(f, NoErr, <<>>)
    ELSE
        LET fullPath == Join(path, de.name)
        IN  IF de.dtype = "dir" THEN RemoveAll(f, fullPath, ord, fault)
            ELSE
                LET u == Unlink(f, fullPath, fault)
                    tag == IF de.dtype \in {"lnk", "reg"} THEN "failed to remove file"
                           ELSE "failed to remove unknown entry"
                IN  Out(u.fs,
                        IF u.err # NoErr THEN Wrap(tag, u.err) ELSE NoErr,
                        <<Call("Unlink", fullPath, u.err)>>)

\* the loop of forDirItem from the nth read of the stream on
forDirItem(f, path, stream, nth, ord, fault) ==
    IF FaultedRead(fault, path, nth) THEN
        Out(f, Wrap("failed to readdir", NewErr(EIO)),
            <<Call("ReadDir", path, NewErr(EIO))>>)
    ELSE IF nth > Len(stream) THEN Out(f, NoErr, <<Call("ReadDir", path, NoErr)>>)
    ELSE
        Bind(RemoveAllItem(f, path, stream[nth], ord, fault),
             LAMBDA cb :
                IF cb.err # NoErr THEN
                    Out(cb.fs, Wrap("DirEntry callback failed", cb.err),
                        <<Call("ReadDir", path, NoErr)>> \o cb.calls)
                ELSE
                    Bind(forDirItem(cb.fs, path, stream, nth + 1, ord, fault),
                         LAMBDA rest :
                            Out(rest.fs, rest.err,
                                <<Call("ReadDir", path, NoErr)>> \o cb.calls \o rest.calls)))

\* Stat failed, and a path that is not there is an error like any other
RemoveAllStatErrStrict(f, st, statCall) == Out(f, st.err, statCall)

\* Stat failed: nothing to remove when the path is not there
RemoveAllStatErr(f, st, statCall) ==
    IF OsIsNotExist(st.err) THEN Out(f, NoErr, statCall)
    ELSE Out(f, st.err, statCall)

\* no directory: Remove
RemoveAllFile(f, path, fault, statCall) ==
    LET rm == Remove(f, path, fault)
    IN  Out(rm.fs,
            IF rm.err # NoErr THEN Wrap("'RemoveAll' failed to remove file", rm.err)
            ELSE NoErr,
            statCall \o <<Call("Unlink", path, rm.err)>>)

\* the end of RemoveAll, leaving the emptied directory in place
RemoveAllEndKeepsDir(it, path, fault, cs) ==
    Out(it.fs, it.err, cs \o it.calls \o <<Call("CloseDir", path, NoErr)>>)

\* after forDirItem gave it: the directory itself goes when every entry
\* went; cs are the calls up to then, and the deferred dir.Close() is last
RemoveAllEnd(it, path, fault, cs) ==
    LET closeCall == <<Call("CloseDir", path, NoErr)>>
    IN  IF it.err # NoErr THEN Out(it.fs, it.err, cs \o it.calls \o closeCall)
        ELSE
            LET rd == RemoveDir(it.fs, path, fault)
            IN  Out(rd.fs, rd.err,
                    cs \o it.calls \o <<Call("RemoveDir", path, rd.err)>> \o closeCall)

RemoveAll(f, path, ord, fault) ==
    LET st == Stat(f, path, fault)
        statCall == <<Call("Statx", path, st.err)>>
    IN  IF st.err # NoErr THEN RemoveAllStatErr(f, st, statCall)
        ELSE IF ~IsDir(st.kind) THEN RemoveAllFile(f, path, fault, statCall)
        ELSE
            LET dir == OpenDir(f, path, ord, fault)
                openCall == statCall \o <<Call("OpenDir", path, dir.err)>>
            IN  IF dir.err # NoErr THEN
                    Out(f, Wrap("failed to open dir", dir.err), openCall)
                ELSE
                    Bind(forDirItem(f, path, dir.stream, 1, ord, fault),
                         LAMBDA it : RemoveAllEnd(it, path, fault, openCall))

----------------------------------------------------------------------------
(* Fs.Mkdir, Fs.MkdirAll, Fs.Chmod, Fs.Chown and their remote primitives *)

\* MountInfo.MakeDir(path, mode): the last component must be missing
MakeDir(f, path, fault) ==
    IF Faulted(fault, "MakeDir", path) THEN [err |-> NewErr(EIO), fs |-> f]
    ELSE
        LET r == Resolve(f, path, FALSE)
        IN  IF r.err = NoErr THEN [err |-> NewErr(EEXIST), fs |-> f]
            ELSE IF r.missing THEN [err |-> NoErr, fs |-> [f EXCEPT ![r.path] = DirNode]]
            ELSE [err |-> r.err, fs |-> f]

RECURSIVE MakeDirsFrom(_, _, _, _, _)
\* the first k - 1 components of path are directories; made says whether
\* one of them was made; strict whether the remote reports a chain that
\* was all there as already existing
MakeDirsFrom(f, path, k, made, strict) ==
    IF k > Len(path) THEN
        [err |-> IF ~made /\ strict THEN NewErr(EEXIST) ELSE NoErr, fs |-> f]
    ELSE
        LET r == Resolve(f, SubSeq(path, 1, k), TRUE)
        IN  IF r.err = NoErr THEN
                IF KindAt(f, r.path) = "dir" THEN MakeDirsFrom(f, path, k + 1, made, strict)
                ELSE [err |-> NewErr(IF k < Len(path) THEN ENOTDIR ELSE EEXIST), fs |-> f]
            ELSE IF r.missing THEN
                MakeDirsFrom([f EXCEPT ![r.path] = DirNode], path, k + 1, TRUE, strict)
            ELSE [err |-> r.err, fs |-> f]

\* MountInfo.MakeDirs(path, mode)
MakeDirs(f, path, strict, fault) ==
    IF Faulted(fault, "MakeDirs", path) THEN [err |-> NewErr(EIO), fs |-> f]
    ELSE MakeDirsFrom(f, path, 1, FALSE, strict)

\* MountInfo.Chmod(path, mode) and MountInfo.Chown(path, uid, gid): the
\* path must name something; modes and owners are not part of the tree
SetAttr(f, fn, path, fault) ==
    IF Faulted(fault, fn, path) THEN [err |-> NewErr(EIO), fs |-> f]
    ELSE [err |-> Resolve(f, path, TRUE).err, fs |-> f]

Mkdir(f, path, fault) ==
    LET r == MakeDir(f, path, fault)
    IN  Out(r.fs,
            IF r.err # NoErr THEN Wrap("failed to create directory", convertErr(r.err))
            ELSE NoErr,
            <<Call("MakeDir", path, r.err)>>)

MkdirAll(f, path, strict, fault) ==
    LET r == MakeDirs(f, path, strict, fault)
    IN  Out(r.fs, r.err, <<Call("MakeDirs", path, r.err)>>)

Chmod(f, path, fault) ==
    LET r == SetAttr(f, "Chmod", path, fault)
    IN  Out(r.fs, r.err, <<Call("Chmod", path, r.err)>>)

Chown(f, path, fault) ==
    LET r == SetAttr(f, "Chown", path, fault)
    IN  Out(r.fs, r.err, <<Call("Chown", path, r.err)>>)

----------------------------------------------------------------------------
(* Fs.Rename and the remote rename *)

\* the tree with the node at src, and all below it, moved to dst
Moved(f, src, dst) ==
    [q \in Paths |->
        IF IsPrefix(dst, q) THEN
            LET s == src \o SubSeq(q, Len(dst) + 1, Len(q))
            IN  IF s \in Paths THEN f[s] ELSE NoNode
        ELSE IF IsPrefix(src, q) THEN NoNode
        ELSE f[q]]

\* MountInfo.Rename(from, to): moves the entry itself (a link is not
\* followed); renaming an entry onto itself succeeds and changes nothing
RemoteRename(f, from, to, fault) ==
    IF Faulted(fault, "Rename", from) THEN [err |-> NewErr(EIO), fs |-> f]
    ELSE
        LET ra == Resolve(f, from, FALSE)
            rb == Resolve(f, to, FALSE)
            src == ra.path
            dst == rb.path
        IN  IF ra.err # NoErr THEN [err |-> ra.err, fs |-> f]
            ELSE IF rb.err # NoErr /\ ~rb.missing THEN [err |-> rb.err, fs |-> f]
            ELSE IF src = Root \/ dst = Root THEN [err |-> NewErr(EINVAL), fs |-> f]
            ELSE IF src = dst THEN [err |-> NoErr, fs |-> f]
            ELSE IF f[src].kind = "dir" /\ IsPrefix(src, dst) THEN
                [err |-> NewErr(EINVAL), fs |-> f]
            ELSE IF rb.err = NoErr /\ f[src].kind = "dir" /\ f[dst].kind # "dir" THEN
                [err |-> NewErr(ENOTDIR), fs |-> f]
            ELSE IF rb.err = NoErr /\ f[src].kind # "dir" /\ f[dst].kind = "dir" THEN
                [err |-> NewErr(EISDIR), fs |-> f]
            ELSE IF rb.err = NoErr /\ Children(f, dst) # {} THEN
                [err |-> NewErr(ENOTEMPTY), fs |-> f]
            ELSE [err |-> NoErr, fs |-> Moved(f, src, dst)]

Rename(f, oldPath, newPath, fault) ==
    LET r == RemoteRename(f, oldPath, newPath, fault)
    IN  Out(r.fs, r.err, <<Call("Rename", oldPath, r.err)>>)

\* the moved nodes still have paths the model can hold
RenameFits(f, from, to) ==
    LET ra == Resolve(f, from, FALSE)
        rb == Resolve(f, to, FALSE)
    IN  (ra.err = NoErr /\ (rb.err = NoErr \/ rb.missing)) =>
            \A q \in Nodes(f) :
                IsPrefix(ra.path, q) =>
                    (rb.path \o SubSeq(q, Len(ra.path) + 1, Len(q))) \in Paths

----------------------------------------------------------------------------
(* Opening: the remote open, Fs.Create, Fs.Open, Fs.OpenFile *)

\* the flags of an open, by what they ask for
Flag(write, create, trunc) == [write |-> write, create |-> create, trunc |-> trunc]

O_RDONLY == Flag(FALSE, FALSE, FALSE)

O_RDWR == Flag(TRUE, FALSE, FALSE)

O_RDWR_CREATE == Flag(TRUE, TRUE, FALSE)

\* the flags of Create without O_TRUNC
O_RDWR_CREATE_KEEP == Flag(TRUE, TRUE, FALSE)

O_RDWR_CREATE_TRUNC == Flag(TRUE, TRUE, TRUE)

OpenFlags == {O_RDONLY, O_RDWR, O_RDWR_CREATE, O_RDWR_CREATE_TRUNC}

\* MountInfo.Open(path, flags, mode): follows links; creates a regular file
\* when asked to and the last component is missing; node is what was opened
RemoteOpen(f, path, flag, fault) ==
    IF Faulted(fault, "Open", path) THEN [err |-> NewErr(EIO), fs |-> f, node |-> Root]
    ELSE
        LET r == Resolve(f, path, TRUE)
        IN  IF r.err = NoErr THEN
                IF KindAt(f, r.path) = "dir" /\ (flag.write \/ flag.create) THEN
                    [err |-> NewErr(EISDIR), fs |-> f, node |-> Root]
                ELSE [err |-> NoErr, fs |-> f, node |-> r.path]
            ELSE IF r.missing /\ flag.create THEN
                [err |-> NoErr, fs |-> [f EXCEPT ![r.path] = RegNode], node |-> r.path]
            ELSE [err |-> r.err, fs |-> f, node |-> Root]

\* File.Fstatx(StatxBasicStats, 0) on the file opened at node as path
Fstatx(f, node, path, fault) ==
    IF Faulted(fault, "Fstatx", path) THEN [err |-> NewErr(EIO), kind |-> "none"]
    ELSE [err |-> NoErr, kind |-> KindAt(f, node)]

\* The handle: type File.  file and dir say which capabilities are
\* populated.  node is the remote node the file capability refers to;
\* stream is the remote's entry stream of the directory and pos the number
\* of entries the directory capability's cursor has passed; got is the
\* concatenation of the names the handle's listings have returned, listed
\* whether there was none, one or more of them, and plain whether each
\* was given a positive count.
NoHandle ==
    [open |-> FALSE, variant |-> "A", path |-> Root, file |-> FALSE, dir |-> FALSE,
     node |-> Root, stream |-> <<>>, pos |-> 0, got |-> <<>>,
     listed |-> 0, plain |-> TRUE]

\* a handle that never holds the directory capability
FileAFileOnly(path, node, hasDir, stream) ==
    [open |-> TRUE, variant |-> "A", path |-> path, file |-> TRUE, dir |-> FALSE,
     node |-> node, stream |-> stream, pos |-> 0, got |-> <<>>,
     listed |-> 0, plain |-> TRUE]

\* &File{fs.mount, path, cfile, nil} and &File{fs.mount, path, cfile, dir}
FileA(path, node, hasDir, stream) ==
    [open |-> TRUE, variant |-> "A", path |-> path, file |-> TRUE, dir |-> hasDir,
     node |-> node, stream |-> stream, pos |-> 0, got |-> <<>>,
     listed |-> 0, plain |-> TRUE]

\* &File{cfile, fs.mount, path}: the embedded remote file is the one capability
FileB(path, node, stream) ==
    [open |-> TRUE, variant |-> "B", path |-> path, file |-> TRUE, dir |-> FALSE,
     node |-> node, stream |-> stream, pos |-> 0, got |-> <<>>,
     listed |-> 0, plain |-> TRUE]

\* what an open gives: the tree, the error, the calls and the handle (nil
\* when the error is not)
OutH(f, e, cs, hd) == [fs |-> f, err |-> e, calls |-> cs, h |-> hd]

\* the same in both variants
Create(f, path, fault) ==
    LET o == RemoteOpen(f, path, O_RDWR_CREATE_TRUNC, fault)
        cs == <<Call("Open", path, o.err)>>
    IN  IF o.err # NoErr THEN OutH(o.fs, o.err, cs, NoHandle)
        ELSE OutH(o.fs, NoErr, cs, FileA(path, o.node, FALSE, <<>>))

OpenFile(f, path, flag, ord, fault) ==
    LET o == RemoteOpen(f, path, flag, fault)
        openCall == <<Call("Open", path, o.err)>>
    IN  IF o.err # NoErr THEN OutH(o.fs, convertErr(o.err), openCall, NoHandle)
        ELSE
            LET info == Fstatx(o.fs, o.node, path, fault)
                statCall == openCall \o <<Call("Fstatx", path, info.err)>>
            IN  IF info.err # NoErr THEN OutH(o.fs, info.err, statCall, NoHandle)
                ELSE IF IsDir(info.kind) THEN
                    LET dir == OpenDir(o.fs, path, ord, fault)
                        dirCall == statCall \o <<Call("OpenDir", path, dir.err)>>
                    IN  IF dir.err # NoErr THEN
                            OutH(o.fs, convertErr(dir.err), dirCall, NoHandle)
                        ELSE OutH(o.fs, NoErr, dirCall, FileA(path, o.node, TRUE, dir.stream))
                ELSE OutH(o.fs, NoErr, statCall, FileA(path, o.node, FALSE, <<>>))

\* the stream the remote holds for what was opened, for the listings of
\* variant B, which open the directory by path at every call
StreamOf(f, node, ord) == IF KindAt(f, node) = "dir" THEN Stream(f, node, ord) ELSE <<>>

CreateB(f, path, fault) ==
    LET o == RemoteOpen(f, path, O_RDWR_CREATE_TRUNC, fault)
        cs == <<Call("Open", path, o.err)>>
    IN  IF o.err # NoErr THEN OutH(o.fs, o.err, cs, NoHandle)
        ELSE OutH(o.fs, NoErr, cs, FileB(path, o.node, <<>>))

OpenB(f, path, ord, fault) ==
    LET o == RemoteOpen(f, path, O_RDONLY, fault)
        cs == <<Call("Open", path, o.err)>>
    IN  IF o.err # NoErr THEN OutH(o.fs, convertErr(o.err), cs, NoHandle)
        ELSE OutH(o.fs, NoErr, cs, FileB(path, o.node, StreamOf(o.fs, o.node, ord)))

OpenFileB(f, path, flag, ord, fault) ==
    LET o == RemoteOpen(f, path, flag, fault)
        cs == <<Call("Open", path, o.err)>>
    IN  IF o.err # NoErr THEN OutH(o.fs, o.err, cs, NoHandle)
        ELSE OutH(o.fs, NoErr, cs, FileB(path, o.node, StreamOf(o.fs, o.node, ord)))

----------------------------------------------------------------------------
(* File.Close *)

\* Close that returns at the first close that fails
CloseStopsAtFirst(hd, fileErr, dirErr) ==
    IF hd.file /\ fileErr # NoErr THEN
        [err |-> fileErr, calls |-> <<Call("CloseFile", hd.path, fileErr)>>]
    ELSE
        [err |-> IF hd.dir THEN dirErr ELSE NoErr,
         calls |-> (IF hd.file THEN <<Call("CloseFile", hd.path, fileErr)>> ELSE <<>>)
                    \o (IF hd.dir THEN <<Call("CloseDir", hd.path, dirErr)>> ELSE <<>>)]

\* fileErr and dirErr are what the remote closes give
Close(hd, fileErr, dirErr) ==
    LET errs == (IF hd.file /\ fileErr # NoErr THEN <<fileErr>> ELSE <<>>)
                    \o (IF hd.dir /\ dirErr # NoErr THEN <<dirErr>> ELSE <<>>)
        cs == (IF hd.file THEN <<Call("CloseFile", hd.path, fileErr)>> ELSE <<>>)
                    \o (IF hd.dir THEN <<Call("CloseDir", hd.path, dirErr)>> ELSE <<>>)
    IN  [err |-> IF Len(errs) > 1 THEN
                     Wrap2("failed to close file for reasons", errs[1], errs[2])
                 ELSE IF Len(errs) = 1 THEN errs[1]
                 ELSE NoErr,
         calls |-> cs]

----------------------------------------------------------------------------
(* Directory listing: File.Readdir and File.Readdirnames of variant A,     *)
(* listFromDir and its two users of variant B                              *)

\* filepath.Base(path): the last element
Base(path) == IF path = Root THEN "/" ELSE path[Len(path)]

\* &FileInfo{stat: ..., path: fullPath}, with its Name()
FileInfo(fullPath) == [name |-> Base(fullPath), path |-> fullPath]

\* what a listing gives: the list, whether the slice is nil, the error, the
\* cursor after it and the remote calls it made
OutL(list, isNil, e, pos, cs) ==
    [list |-> list, isNil |-> isNil, err |-> e, pos |-> pos, calls |-> cs]

RECURSIVE ReaddirLoop(_, _, _, _, _, _)
\* the loop with the other convention: the end of the stream is no error
ReaddirLoopNoEOF(hd, pos, count, list, cs, fault) ==
    IF count = 0 THEN OutL(list, FALSE, NoErr, pos, cs)
    ELSE IF FaultedRead(fault, hd.path, Len(cs) + 1) THEN
        OutL(list, FALSE, Wrap("cephfs: failed to list file", NewErr(EIO)), pos,
             Append(cs, Call("ReadDir", hd.path, NewErr(EIO))))
    ELSE
        LET read == Append(cs, Call("ReadDir", hd.path, NoErr))
        IN  IF pos >= Len(hd.stream) THEN OutL(list, FALSE, NoErr, pos, read)
            ELSE
                LET de == hd.stream[pos + 1]
                IN  IF de.name # Dot /\ de.name # DotDot THEN
                        ReaddirLoop(hd, pos + 1, IF count > 0 THEN count - 1 ELSE count,
                                    Append(list, FileInfo(Join(hd.path, de.name))),
                                    read, fault)
                    ELSE ReaddirLoop(hd, pos + 1, count, list, read, fault)

\* the for loop of File.Readdir: pos entries of the stream are behind the
\* cursor, count is what is left of the bound, cs the reads made so far
ReaddirLoop(hd, pos, count, list, cs, fault) ==
    IF count = 0 THEN OutL(list, FALSE, NoErr, pos, cs)
    ELSE IF FaultedRead(fault, hd.path, Len(cs) + 1) THEN
        OutL(list, FALSE, Wrap("cephfs: failed to list file", NewErr(EIO)), pos,
             Append(cs, Call("ReadDir", hd.path, NewErr(EIO))))
    ELSE
        LET read == Append(cs, Call("ReadDir", hd.path, NoErr))
        IN  IF pos >= Len(hd.stream) THEN
                OutL(list, FALSE, IF count > 0 THEN NewErr(IoEOF) ELSE NoErr, pos, read)
            ELSE
                LET de == hd.stream[pos + 1]
                IN  IF de.name # Dot /\ de.name # DotDot THEN
                        ReaddirLoop(hd, pos + 1, IF count > 0 THEN count - 1 ELSE count,
                                    Append(list, FileInfo(Join(hd.path, de.name))),
                                    read, fault)
                    ELSE ReaddirLoop(hd, pos + 1, count, list, read, fault)

Readdir(hd, count, fault) ==
    IF ~hd.dir THEN OutL(<<>>, TRUE, NewErr(ErrDirNil), hd.pos, <<>>)
    ELSE ReaddirLoop(hd, hd.pos, IF count = 0 THEN -1 ELSE count, <<>>, <<>>, fault)

NamesOf(list) == [i \in DOMAIN list |-> list[i].name]

Readdirnames(hd, count, fault) ==
    LET r == Readdir(hd, count, fault)
    IN  OutL(NamesOf(r.list), FALSE, r.err, r.pos, r.calls)

\* the two callbacks handed to listFromDir
StatCallback(f, hd, de, fault) ==
    LET fullPath == Join(hd.path, de.name)
        st == Statx(f, fullPath, fault)
    IN  [item |-> FileInfo(fullPath),
         err |-> IF st.err # NoErr THEN Wrap("failed to statx file", st.err) ELSE NoErr,
         calls |-> <<Call("Statx", fullPath, st.err)>>]

NameCallback(f, hd, de, fault) == [item |-> de.name, err |-> NoErr, calls |-> <<>>]

Callback(f, hd, de, names, fault) ==
    IF names THEN NameCallback(f, hd, de, fault) ELSE StatCallback(f, hd, de, fault)

ReadsIn(cs) == Cardinality({j \in DOMAIN cs : cs[j].fn = "ReadDir"})

RECURSIVE ListLoop(_, _, _, _, _, _, _, _)
\* the loop giving up what it collected when a read or the callback fails
ListLoopDropsList(f, hd, stream, pos, count, list, cs, arg) ==
    IF count = 0 THEN OutL(list, FALSE, NoErr, pos, cs)
    ELSE IF FaultedRead(arg.fault, hd.path, ReadsIn(cs) + 1) THEN
        OutL(<<>>, TRUE, Wrap("failed cephfs.ReadDir", NewErr(EIO)), pos,
             Append(cs, Call("ReadDir", hd.path, NewErr(EIO))))
    ELSE
        LET read == Append(cs, Call("ReadDir", hd.path, NoErr))
        IN  IF pos >= Len(stream) THEN OutL(list, FALSE, NoErr, pos, read)
            ELSE
                LET cb == Callback(f, hd, stream[pos + 1], arg.names, arg.fault)
                IN  IF cb.err # NoErr THEN
                        OutL(<<>>, TRUE, Wrap("listFromDir callback failed", cb.err),
                             pos + 1, read \o cb.calls)
                    ELSE ListLoop(f, hd, stream, pos + 1,
                                  IF count > 0 THEN count - 1 ELSE count,
                                  Append(list, cb.item), read \o cb.calls, arg)

\* the for loop of listFromDir over the stream of the directory it opened
ListLoop(f, hd, stream, pos, count, list, cs, arg) ==
    IF count = 0 THEN OutL(list, FALSE, NoErr, pos, cs)
    ELSE IF FaultedRead(arg.fault, hd.path, ReadsIn(cs) + 1) THEN
        OutL(list, FALSE, Wrap("failed cephfs.ReadDir", NewErr(EIO)), pos,
             Append(cs, Call("ReadDir", hd.path, NewErr(EIO))))
    ELSE
        LET read == Append(cs, Call("ReadDir", hd.path, NoErr))
        IN  IF pos >= Len(stream) THEN OutL(list, FALSE, NoErr, pos, read)
            ELSE
                LET cb == Callback(f, hd, stream[pos + 1], arg.names, arg.fault)
                IN  IF cb.err # NoErr THEN
                        OutL(list, FALSE, Wrap("listFromDir callback failed", cb.err),
                             pos + 1, read \o cb.calls)
                    ELSE ListLoop(f, hd, stream, pos + 1,
                                  IF count > 0 THEN count - 1 ELSE count,
                                  Append(list, cb.item), read \o cb.calls, arg)

\* names: the callback takes the name (Readdirnames), or stats (Readdir)
listFromDir(f, hd, count, names, fault) ==
    LET stat == Fstatx(f, hd.node, hd.path, fault)
        statCall == <<Call("Fstatx", hd.path, stat.err)>>
    IN  IF stat.err # NoErr THEN OutL(<<>>, TRUE, stat.err, 0, statCall)
        ELSE IF ~IsDir(stat.kind) THEN OutL(<<>>, TRUE, NewErr("not a directory"), 0, statCall)
        ELSE
            LET dir == IF Faulted(fault, "OpenDir", hd.path)
                       THEN [err |-> NewErr(EIO), stream |-> <<>>]
                       ELSE [err |-> NoErr, stream |-> hd.stream]
                openCall == statCall \o <<Call("OpenDir", hd.path, dir.err)>>
            IN  IF dir.err # NoErr THEN OutL(<<>>, TRUE, Wrap("failed", dir.err), 0, openCall)
                ELSE
                    LET r == ListLoop(f, hd, dir.stream, 0, IF count = 0 THEN -1 ELSE count,
                                      <<>>, openCall, [names |-> names, fault |-> fault])
                    IN  OutL(r.list, r.isNil, r.err, r.pos,
                             Append(r.calls, Call("CloseDir", hd.path, NoErr)))

ReaddirB(f, hd, count, fault) == listFromDir(f, hd, count, FALSE, fault)

ReaddirnamesB(f, hd, count, fault) == listFromDir(f, hd, count, TRUE, fault)

----------------------------------------------------------------------------
(* The bytes of the remote files, and the handle's Read and Write *)

Bytes == {0, 1}

ByteSeqs == UNION {[1..n -> Bytes] : n \in 0..MaxLen}

Min(a, b) == IF a < b THEN a ELSE b

Max(a, b) == IF a > b THEN a ELSE b

\* bytes: what each remote file holds; off: the position of the remote
\* file the handle has open, and wr whether it was opened for writing.
\* The rest records a round trip under way: at is the path created, wrote
\* the bytes written to it, stage how far the caller has come (created 1,
\* written 2, closed 3, opened again 4, read 5; 0 when there is none),
\* had the bytes the file held before it was created again.
NoTrip == [stage |-> 0, at |-> Root, wrote |-> <<>>, had |-> <<>>]

NoData ==
    [bytes |-> [p \in Paths |-> <<>>], off |-> 0, wr |-> FALSE, trip |-> NoTrip]

\* what the remote open o makes of the bytes: O_TRUNC empties the file;
\* the position is at the start
Opening(d, o, flag) ==
    IF o.err # NoErr THEN d
    ELSE [d EXCEPT !.bytes = IF flag.trunc /\ flag.write
                             THEN [d.bytes EXCEPT ![o.node] = <<>>] ELSE d.bytes,
                   !.off = 0,
                   !.wr = flag.write]

\* old with buf put at off; a gap reads as zeroes
Overwrite(old, off, buf) ==
    [i \in 1..Max(Len(old), off + Len(buf)) |->
        IF i > off /\ i <= off + Len(buf) THEN buf[i - off]
        ELSE IF i <= Len(old) THEN old[i]
        ELSE 0]

\* what a Read or Write gives: the bytes read, the number written or
\* read, the error, the bytes and position afterwards, the remote calls
OutIO(buf, n, e, d, cs) == [buf |-> buf, n |-> n, err |-> e, data |-> d, calls |-> cs]

\* gocephfs File.Write(buf) on the file the handle has open
RemoteWrite(f, hd, d, buf, fault) ==
    IF Faulted(fault, "Write", hd.path) THEN
        OutIO(<<>>, 0, NewErr(EIO), d, <<Call("Write", hd.path, NewErr(EIO))>>)
    ELSE IF ~d.wr \/ KindAt(f, hd.node) # "reg" THEN
        OutIO(<<>>, 0, NewErr("EBADF"), d, <<Call("Write", hd.path, NewErr("EBADF"))>>)
    ELSE
        OutIO(<<>>, Len(buf), NoErr,
              [d EXCEPT !.bytes[hd.node] = Overwrite(d.bytes[hd.node], d.off, buf),
                        !.off = d.off + Len(buf)],
              <<Call("Write", hd.path, NoErr)>>)

\* gocephfs File.Read(buf) with a buffer of n bytes: what is left of the
\* file, up to n bytes, and io.EOF when nothing is left for the buffer
RemoteRead(f, hd, d, n, fault) ==
    IF Faulted(fault, "Read", hd.path) THEN
        OutIO(<<>>, 0, NewErr(EIO), d, <<Call("Read", hd.path, NewErr(EIO))>>)
    ELSE IF KindAt(f, hd.node) # "reg" THEN
        OutIO(<<>>, 0, NewErr(EISDIR), d, <<Call("Read", hd.path, NewErr(EISDIR))>>)
    ELSE
        LET all == d.bytes[hd.node]
            got == SubSeq(all, d.off + 1, Min(d.off + n, Len(all)))
        IN  IF got = <<>> /\ n > 0 THEN
                OutIO(<<>>, 0, NewErr(IoEOF), d, <<Call("Read", hd.path, NewErr(IoEOF))>>)
            ELSE
                OutIO(got, Len(got), NoErr, [d EXCEPT !.off = d.off + Len(got)],
                      <<Call("Read", hd.path, NoErr)>>)

\* File.Write and File.Read of the two-capability handle; the other
\* variant has the methods of the remote file it embeds
Write(f, hd, d, buf, fault) ==
    IF hd.variant = "A" /\ ~hd.file THEN OutIO(<<>>, 0, NewErr(ErrFileNil), d, <<>>)
    ELSE RemoteWrite(f, hd, d, buf, fault)

Read(f, hd, d, n, fault) ==
    IF hd.variant = "A" /\ ~hd.file THEN OutIO(<<>>, 0, NewErr(ErrFileNil), d, <<>>)
    ELSE RemoteRead(f, hd, d, n, fault)

----------------------------------------------------------------------------
(* The failures that can be injected into an operation: none, or one at a  *)
(* call the operation makes when nothing is injected.                      *)

\* how many of the first i calls are directory reads of path
ReadsUpTo(cs, i, path) ==
    Cardinality({j \in 1..i : cs[j].fn = "ReadDir" /\ cs[j].path = path})

FaultAt(cs, i) ==
    [fn |-> cs[i].fn, path |-> cs[i].path,
     nth |-> IF cs[i].fn = "ReadDir" THEN ReadsUpTo(cs, i, cs[i].path) ELSE 0]

\* the remote close of a directory stream inside RemoveAll is deferred and
\* its result is dropped: a failure there changes nothing
FaultsOf(cs) ==
    {NoFault} \cup {FaultAt(cs, i) : i \in {j \in DOMAIN cs : cs[j].fn # "CloseDir"}}

----------------------------------------------------------------------------
(* State.                                                                  *)
(*   fs     the remote tree                                                *)
(*   h      the handle the caller holds, if any                            *)
(*   op     the last operation and its arguments                           *)
(*   ret    what it returned                                               *)
(*   pre    the remote tree before it                                      *)
(*   calls  the remote calls it made, in order                             *)

\* again: the call repeats the one before it, which returned nil; count
\* is then the number of nodes that one removed, and else the count given
\* to a listing
NoOp == [name |-> "none", path |-> Root, path2 |-> Root, count |-> 0, again |-> FALSE]

Op(name, path) ==
    [name |-> name, path |-> path, path2 |-> Root, count |-> 0, again |-> FALSE]

\* a returned error, and a returned list with whether the slice is nil
Ret(e) == [err |-> e, list |-> <<>>, isNil |-> TRUE]

Init ==
    /\ fs \in Trees
    /\ h = NoHandle
    /\ op = NoOp
    /\ ret = Ret(NoErr)
    /\ pre = fs
    /\ calls = <<>>
    /\ data = NoData

\* The trees the handles are studied on: one node at the top with what
\* is in it when it is a directory (files, directories and links, which
\* dangle when nothing is beside it) and, besides it, nothing or a link
\* to it.
Top == <<"a">>

Alias == <<"b">>

FileTrees ==
    {[p \in Paths |->
        IF p = Top THEN t
        ELSE IF p = Alias THEN l
        ELSE IF Parent(p) = Top /\ t = DirNode THEN c[Base(p)]
        ELSE NoNode] :
        t \in {NoNode} \cup LeafNodes,
        l \in {NoNode, LnkNode(Top)},
        c \in [Names -> {NoNode, RegNode, DirNode, LnkNode(Alias)}]}

InitFile ==
    /\ fs \in FileTrees
    /\ h = NoHandle
    /\ op = NoOp
    /\ ret = Ret(NoErr)
    /\ pre = fs
    /\ calls = <<>>
    /\ data = NoData

\* the paths handed to the operations that take two paths or open a file
ShortPaths == {<<x>> : x \in Names} \cup {<<x, y>> : x \in Names, y \in Names}

Variants == {"A", "B"}

Counts == (-1)..MaxCount

\* The order of a directory's stream is the remote's choice.  One order
\* of all entry names gives the order of every stream read in an
\* operation; names that no entry read has are put last, which gives one
\* order for each order of the entries that are there.
DefaultOrder == <<Dot, DotDot, "a", "b">>

Rank(n) == CHOOSE i \in DOMAIN DefaultOrder : DefaultOrder[i] = n

OrdersFor(isDir, used) ==
    IF ~isDir THEN {DefaultOrder}
    ELSE {o \in Orders :
            \A i, j \in DOMAIN o :
                (i < j /\ o[i] \in Names \ used) =>
                    (o[j] \in Names \ used /\ Rank(o[i]) < Rank(o[j]))}

\* whether path names a directory, and the names of the entries below it
DirAt(f, path) ==
    LET r == Resolve(f, path, TRUE) IN r.err = NoErr /\ KindAt(f, r.path) = "dir"

NamesBelow(f, path) ==
    LET r == Resolve(f, path, TRUE)
    IN  {Base(q) : q \in {n \in Nodes(f) : IsPrefix(r.path, n) /\ n # r.path}}

OrdersAt(f, path) ==
    IF DirAt(f, path) THEN OrdersFor(TRUE, NamesBelow(f, path)) ELSE {DefaultOrder}

\* no operation is under way: the last result was taken by the caller
Idle == op = NoOp

\* The caller takes the result of the last operation, and drops a handle
\* it has closed.
Return ==
    /\ op # NoOp
    /\ op' = NoOp
    /\ ret' = Ret(NoErr)
    /\ pre' = fs
    /\ calls' = <<>>
    /\ h' = IF h.open THEN h ELSE NoHandle
    /\ UNCHANGED <<fs, data>>

\* RemoveAll(path); also the repeated call, right after one that succeeded
DoRemoveAll ==
    /\ ~h.open
    /\ \E path \in Paths :
        /\ \/ Idle
           \/ op = Op("RemoveAll", path) /\ ret.err = NoErr
        /\ \E ord \in OrdersAt(fs, path) :
            \E clean \in {RemoveAll(fs, path, ord, NoFault)} :
                \E fault \in FaultsOf(clean.calls) :
                    \E r \in {RemoveAll(fs, path, ord, fault)} :
                        /\ fs' = r.fs
                        /\ op' = [Op("RemoveAll", path) EXCEPT
                                    !.again = ~Idle,
                                    !.count = IF Idle THEN 0
                                              ELSE Cardinality(Nodes(pre) \ Nodes(fs))]
                        /\ ret' = Ret(r.err)
                        /\ pre' = fs
                        /\ calls' = r.calls
                        /\ UNCHANGED <<h, data>>

DoStat ==
    /\ Idle
    /\ ~h.open
    /\ \E path \in Paths :
        \E fault \in {NoFault, [fn |-> "Statx", path |-> path, nth |-> 1]} :
            LET r == Stat(fs, path, fault)
            IN  /\ op' = Op("Stat", path)
                /\ ret' = Ret(r.err)
                /\ pre' = fs
                /\ calls' = <<Call("Statx", path, r.err)>>
                /\ UNCHANGED <<fs, h, data>>

DoRename ==
    /\ Idle
    /\ ~h.open
    /\ \E a \in ShortPaths, b \in ShortPaths :
        /\ RenameFits(fs, a, b)
        /\ \E fault \in FaultsOf(Rename(fs, a, b, NoFault).calls) :
            LET r == Rename(fs, a, b, fault)
            IN  /\ fs' = r.fs
                /\ op' = [Op("Rename", a) EXCEPT !.path2 = b]
                /\ ret' = Ret(r.err)
                /\ pre' = fs
                /\ calls' = r.calls
                /\ UNCHANGED <<h, data>>

\* an open's result: the handle goes to the caller
Opened(name, path, r) ==
    /\ Cardinality(Nodes(r.fs)) <= MaxNodes
    /\ fs' = r.fs
    /\ h' = r.h
    /\ op' = Op(name, path)
    /\ ret' = Ret(r.err)
    /\ pre' = fs
    /\ calls' = r.calls
    /\ UNCHANGED data

DoCreate ==
    /\ Idle
    /\ ~h.open
    /\ \E path \in ShortPaths, v \in Variants :
        \E fault \in FaultsOf(Create(fs, path, NoFault).calls) :
            Opened("Create", path,
                   IF v = "A" THEN Create(fs, path, fault) ELSE CreateB(fs, path, fault))

\* Open(path) is OpenFile(path, O_RDONLY, 0) in variant A
DoOpen ==
    /\ Idle
    /\ ~h.open
    /\ \E path \in ShortPaths, v \in Variants :
        \E ord \in OrdersAt(fs, path) :
            \E fault \in FaultsOf(OpenFile(fs, path, O_RDONLY, ord, NoFault).calls) :
                Opened("Open", path,
                       IF v = "A" THEN OpenFile(fs, path, O_RDONLY, ord, fault)
                       ELSE OpenB(fs, path, ord, fault))

DoOpenFile ==
    /\ Idle
    /\ ~h.open
    /\ \E path \in ShortPaths, v \in Variants, flag \in OpenFlags :
        \E ord \in OrdersAt(fs, path) :
            \E fault \in FaultsOf(OpenFile(fs, path, flag, ord, NoFault).calls) :
                Opened("OpenFile", path,
                       IF v = "A" THEN OpenFile(fs, path, flag, ord, fault)
                       ELSE OpenFileB(fs, path, flag, ord, fault))

\* the entries of a stream that are no pseudo-entries
Real(stream) == SelectSeq(stream, LAMBDA de : de.name # Dot /\ de.name # DotDot)

\* The caller lists a directory until it holds more names than the
\* directory has entries.
Listing == Len(h.got) <= Len(Real(h.stream))

\* a listing's result: the cursor moves, the names returned are noted
Listed(name, count, r, names) ==
    /\ h' = [h EXCEPT !.pos = IF h.variant = "A" THEN r.pos ELSE h.pos,
                      !.got = h.got \o names,
                      !.listed = IF h.listed = 0 THEN 1 ELSE 2,
                      !.plain = h.plain /\ count > 0]
    /\ op' = [Op(name, h.path) EXCEPT !.count = count]
    /\ ret' = [err |-> r.err, list |-> r.list, isNil |-> r.isNil]
    /\ pre' = fs
    /\ calls' = r.calls
    /\ UNCHANGED <<fs, data>>

DoReaddir ==
    /\ Idle
    /\ h.open
    /\ Listing
    /\ \E count \in Counts :
        IF h.variant = "A" THEN
            \E fault \in FaultsOf(Readdir(h, count, NoFault).calls) :
                LET r == Readdir(h, count, fault)
                IN  Listed("Readdir", count, r, NamesOf(r.list))
        ELSE
            \E fault \in FaultsOf(ReaddirB(fs, h, count, NoFault).calls) :
                LET r == ReaddirB(fs, h, count, fault)
                IN  Listed("Readdir", count, r, NamesOf(r.list))

DoReaddirnames ==
    /\ Idle
    /\ h.open
    /\ Listing
    /\ \E count \in Counts :
        IF h.variant = "A" THEN
            \E fault \in FaultsOf(Readdirnames(h, count, NoFault).calls) :
                LET r == Readdirnames(h, count, fault)
                IN  Listed("Readdirnames", count, r, r.list)
        ELSE
            \E fault \in FaultsOf(ReaddirnamesB(fs, h, count, NoFault).calls) :
                LET r == ReaddirnamesB(fs, h, count, fault)
                IN  Listed("Readdirnames", count, r, r.list)

\* what a remote close can give
CloseErrs == {NoErr, NewErr(EIO), NewErr("ESTALE")}

DoClose ==
    /\ Idle
    /\ h.open
    /\ \E fileErr \in CloseErrs, dirErr \in CloseErrs :
        LET r == Close(h, fileErr, dirErr)
        IN  /\ h' = [NoHandle EXCEPT !.variant = h.variant,
                                      !.file = h.file, !.dir = h.dir]
            /\ op' = Op("Close", h.path)
            /\ ret' = Ret(r.err)
            /\ pre' = fs
            /\ calls' = r.calls
            /\ UNCHANGED <<fs, data>>

\* the operations on paths
NextFs ==
    \/ DoRemoveAll
    \/ DoStat
    \/ DoRename
    \/ Return

\* the operations that give a handle, and those on it
NextFile ==
    \/ DoCreate
    \/ DoOpen
    \/ DoOpenFile
    \/ DoReaddir
    \/ DoReaddirnames
    \/ DoClose
    \/ Return

Spec == Init /\ [][NextFs]_vars

SpecFile == InitFile /\ [][NextFile]_vars

----------------------------------------------------------------------------
(* Reading and writing: the operations of a caller that creates a file,    *)
(* writes it, closes it, opens it again and reads it, in any order.        *)

\* nothing, a file or a directory at the top and, besides it, nothing or
\* a link to it
DataTrees ==
    {[p \in Paths |-> IF p = Top THEN t ELSE IF p = Alias THEN l ELSE NoNode] :
        t \in {NoNode, RegNode, DirNode}, l \in {NoNode, LnkNode(Top)}}

InitData ==
    /\ fs \in DataTrees
    /\ h = NoHandle
    /\ op = NoOp
    /\ ret = Ret(NoErr)
    /\ pre = fs
    /\ calls = <<>>
    /\ \E b \in ByteSeqs :
        /\ fs[Top].kind # "reg" => b = <<>>
        /\ data = [NoData EXCEPT !.bytes[Top] = b]

DataPaths == {Top, Alias}

\* the remote file an open gave, for Opening
Opened2(r) == [err |-> r.err, node |-> r.h.node]

DoCreateData ==
    /\ Idle
    /\ ~h.open
    /\ \E path \in DataPaths, v \in Variants :
        \E fault \in FaultsOf(Create(fs, path, NoFault).calls) :
            \E r \in {IF v = "A" THEN Create(fs, path, fault) ELSE CreateB(fs, path, fault)} :
                /\ fs' = r.fs
                /\ h' = r.h
                /\ op' = Op("Create", path)
                /\ ret' = Ret(r.err)
                /\ pre' = fs
                /\ calls' = r.calls
                /\ data' = [Opening(data, Opened2(r), O_RDWR_CREATE_TRUNC) EXCEPT
                                !.trip = IF r.err # NoErr THEN NoTrip
                                         ELSE [stage |-> 1, at |-> path, wrote |-> <<>>,
                                               had |-> data.bytes[r.h.node]]]

\* Open(path), as DoOpen
DoOpenData ==
    /\ Idle
    /\ ~h.open
    /\ \E path \in DataPaths, v \in Variants :
        \E ord \in OrdersAt(fs, path) :
            \E fault \in FaultsOf(OpenFile(fs, path, O_RDONLY, ord, NoFault).calls) :
                \E r \in {IF v = "A" THEN OpenFile(fs, path, O_RDONLY, ord, fault)
                          ELSE OpenB(fs, path, ord, fault)} :
                    /\ fs' = r.fs
                    /\ h' = r.h
                    /\ op' = Op("Open", path)
                    /\ ret' = Ret(r.err)
                    /\ pre' = fs
                    /\ calls' = r.calls
                    /\ data' = [Opening(data, Opened2(r), O_RDONLY) EXCEPT
                                    !.trip = IF r.err = NoErr /\ data.trip.stage = 3
                                                /\ data.trip.at = path
                                             THEN [data.trip EXCEPT !.stage = 4]
                                             ELSE NoTrip]

\* Write(buf); the files stay within MaxLen bytes
DoWrite ==
    /\ Idle
    /\ h.open
    /\ \E buf \in ByteSeqs :
        /\ data.off + Len(buf) <= MaxLen
        /\ \E fault \in FaultsOf(Write(fs, h, data, buf, NoFault).calls) :
            \E r \in {Write(fs, h, data, buf, fault)} :
                /\ op' = [Op("Write", h.path) EXCEPT !.count = Len(buf)]
                /\ ret' = [err |-> r.err, list |-> <<>>, isNil |-> TRUE]
                /\ pre' = fs
                /\ calls' = r.calls
                /\ data' = [r.data EXCEPT
                                !.trip = IF r.err = NoErr /\ data.trip.stage = 1
                                         THEN [data.trip EXCEPT !.stage = 2, !.wrote = buf]
                                         ELSE NoTrip]
                /\ UNCHANGED <<fs, h>>

\* Read(buf) with a buffer of n bytes
DoRead ==
    /\ Idle
    /\ h.open
    /\ \E n \in 0..(MaxLen + 1) :
        \E fault \in FaultsOf(Read(fs, h, data, n, NoFault).calls) :
            \E r \in {Read(fs, h, data, n, fault)} :
                /\ op' = [Op("Read", h.path) EXCEPT !.count = n]
                /\ ret' = [err |-> r.err, list |-> r.buf, isNil |-> FALSE]
                /\ pre' = fs
                /\ calls' = r.calls
                /\ data' = [r.data EXCEPT
                                !.trip = IF data.trip.stage = 4
                                         THEN [data.trip EXCEPT !.stage = 5]
                                         ELSE NoTrip]
                /\ UNCHANGED <<fs, h>>

\* Close, as DoClose
DoCloseData ==
    /\ Idle
    /\ h.open
    /\ \E fileErr \in CloseErrs, dirErr \in CloseErrs :
        \E r \in {Close(h, fileErr, dirErr)} :
            /\ h' = [NoHandle EXCEPT !.variant = h.variant,
                                      !.file = h.file, !.dir = h.dir]
            /\ op' = Op("Close", h.path)
            /\ ret' = Ret(r.err)
            /\ pre' = fs
            /\ calls' = r.calls
            /\ data' = [data EXCEPT
                            !.off = 0,
                            !.wr = FALSE,
                            !.trip = IF r.err = NoErr /\ data.trip.stage = 2
                                     THEN [data.trip EXCEPT !.stage = 3]
                                     ELSE NoTrip]
            /\ UNCHANGED fs

NextData ==
    \/ DoCreateData
    \/ DoOpenData
    \/ DoWrite
    \/ DoRead
    \/ DoCloseData
    \/ Return

SpecData == InitData /\ [][NextData]_vars

----------------------------------------------------------------------------
(* The operations on paths that hand the remote's result to the caller.    *)

\* an operation on a path that gives an error: its result goes to the
\* caller with the remote calls it made
Done(name, path, r) ==
    /\ Cardinality(Nodes(r.fs)) <= MaxNodes
    /\ fs' = r.fs
    /\ op' = Op(name, path)
    /\ ret' = Ret(r.err)
    /\ pre' = fs
    /\ calls' = r.calls
    /\ UNCHANGED <<h, data>>

\* the failures of an operation that makes one remote call
FaultsOn(fn, path) == {NoFault, [fn |-> fn, path |-> path, nth |-> 0]}

DoRemove ==
    /\ Idle
    /\ ~h.open
    /\ \E path \in ShortPaths :
        \E fault \in FaultsOn("Unlink", path) :
            \E u \in {Unlink(fs, path, fault)}, r \in {Remove(fs, path, fault)} :
                Done("Remove", path, Out(r.fs, r.err, <<Call("Unlink", path, u.err)>>))

DoMkdir ==
    /\ Idle
    /\ ~h.open
    /\ \E path \in ShortPaths :
        \E fault \in FaultsOn("MakeDir", path) :
            Done("Mkdir", path, Mkdir(fs, path, fault))

DoMkdirAll ==
    /\ Idle
    /\ ~h.open
    /\ \E path \in ShortPaths, strict \in BOOLEAN :
        \E fault \in FaultsOn("MakeDirs", path) :
            Done("MkdirAll", path, MkdirAll(fs, path, strict, fault))

DoChmod ==
    /\ Idle
    /\ ~h.open
    /\ \E path \in ShortPaths :
        \E fault \in FaultsOn("Chmod", path) :
            Done("Chmod", path, Chmod(fs, path, fault))

DoChown ==
    /\ Idle
    /\ ~h.open
    /\ \E path \in ShortPaths :
        \E fault \in FaultsOn("Chown", path) :
            Done("Chown", path, Chown(fs, path, fault))

NextErr ==
    \/ DoRemove
    \/ DoMkdir
    \/ DoMkdirAll
    \/ DoChmod
    \/ DoChown
    \/ DoRename
    \/ DoStat
    \/ DoCreate
    \/ DoOpenFile
    \/ DoClose
    \/ Return

SpecErr == Init /\ [][NextErr]_vars

----------------------------------------------------------------------------
(* Properties of RemoveAll *)

NotFound == NewErr(OsErrNotExist)

\* the paths that name something, itself a link or not
Named(f, q) == Resolve(f, q, FALSE).err = NoErr

RemovedAll == op.name = "RemoveAll" /\ ret.err = NoErr

\* C1: after RemoveAll(p) returned nil on a directory, Stat of p and of
\* every path that named something in or below p before the call fails
\* with the generic not-found error.
C1_RemoveAllComplete ==
    (RemovedAll /\ DirAt(pre, op.path)) =>
        \A q \in Paths :
            (IsPrefix(op.path, q) /\ Named(pre, q)) => Stat(fs, q, NoFault).err = NotFound

\* RemoveAll returned nil on a directory that held a directory with
\* something in it
C1_Witness ==
    /\ RemovedAll
    /\ DirAt(pre, op.path)
    /\ \E q \in Paths :
        IsPrefix(op.path, q) /\ Len(q) = Len(op.path) + 2 /\ pre[q].kind # "none"

\* the calls of the remote client that change the tree, or open a stream
Mutating == {"Unlink", "RemoveDir", "OpenDir", "Rename", "Open"}

StatSaidNotFound ==
    /\ op.name = "RemoveAll"
    /\ calls # <<>>
    /\ calls[1] = Call("Statx", op.path, NotFound)

\* no call of the remote client failed by a failure injected into it
NoInjected == \A i \in DOMAIN calls : ~Is(calls[i].err, EIO)

\* C2: RemoveAll(p) on a path whose Stat reports not-found returns nil
\* and makes no mutating remote call; and RemoveAll(p) called again after
\* it returned nil returns nil again and leaves the remote tree as it was.
C2_RemoveAllIdempotent ==
    /\ StatSaidNotFound =>
        /\ ret.err = NoErr
        /\ fs = pre
        /\ \A i \in DOMAIN calls : calls[i].fn \notin Mutating
    /\ (op.name = "RemoveAll" /\ op.again /\ NoInjected) =>
        /\ StatSaidNotFound
        /\ ret.err = NoErr
        /\ fs = pre

\* the second of two RemoveAll(p), the first of which removed a directory
\* and what was in it
C2_Witness ==
    /\ op.name = "RemoveAll"
    /\ op.again
    /\ op.count >= 2
    /\ ret.err = NoErr

\* the calls that failed while an entry of a directory was processed: a
\* failed read of a stream, or a failed call on a path below p; a Stat
\* that found nothing is no failure of RemoveAll
ChildFailures ==
    {i \in DOMAIN calls :
        /\ calls[i].err # NoErr
        /\ ~(calls[i].fn = "Statx" /\ calls[i].err = NotFound)
        /\ \/ calls[i].fn = "ReadDir"
           \/ calls[i].path # op.path}

\* the directory whose entry was being processed when call i failed
FailDir(i) ==
    IF calls[i].fn = "ReadDir" THEN calls[i].path ELSE Parent(calls[i].path)

\* the kind of the node path names, a final symbolic link not followed
KindOf(f, path) ==
    LET r == Resolve(f, path, FALSE)
    IN  IF r.err = NoErr THEN KindAt(f, r.path) ELSE "none"

\* what a failure of call i means for the call and the calls after it
Aborted(i) ==
    /\ ret.err # NoErr
    /\ calls[i].err.wraps \subseteq ret.err.wraps
    /\ \A j \in DOMAIN calls : j > i => calls[j].fn = "CloseDir"
    /\ \A j \in DOMAIN calls :
        calls[j].fn = "RemoveDir" => ~IsPrefix(calls[j].path, FailDir(i))

----------------------------------------------------------------------------
(* Properties of the listings *)

ListOps == {"Readdir", "Readdirnames"}

\* the handle is one of a directory
OfDir == KindAt(fs, h.node) = "dir"

\* the names a listing returned
Returned == IF op.name = "Readdir" THEN NamesOf(ret.list) ELSE ret.list

\* the entries of the directory other than "." and ".."
Entries == NamesOf(Real(h.stream))

IsPrefixOf(s, t) == Len(s) <= Len(t) /\ SubSeq(t, 1, Len(s)) = s

\* the reads of the last listing that gave an entry or the end of the stream
GoodReads == {i \in DOMAIN calls : calls[i].fn = "ReadDir" /\ calls[i].err = NoErr}

\* C4 as stated: on a freshly opened handle of a directory with M entries
\* other than "." and "..", Readdir(k) with 0 < k <= M returns exactly k
\* entries and Readdir(k) with k <= 0 returns exactly M, none of them
\* named "." or "..", in both implementations.
C4_AsStated ==
    (op.name = "Readdir" /\ h.listed = 1 /\ OfDir /\ NoInjected) =>
        /\ (0 < op.count /\ op.count <= Len(Entries)) => Len(ret.list) = op.count
        /\ op.count <= 0 => Len(ret.list) = Len(Entries)
        /\ \A i \in DOMAIN ret.list : ret.list[i].name \notin {Dot, DotDot}

\* the entry of the stream the cursor of the last listing stopped behind
Cursor == IF h.variant = "A" THEN h.pos ELSE Cardinality(GoodReads)

\* C5 as stated: over the listings with positive counts made on one
\* handle of a directory, the returned lists put together are the
\* entries other than "." and ".." in the order of the stream, none twice
\* and none skipped, and a listing that filled its page read no entry
\* after the one that filled it, in both implementations.
C5_AsStated ==
    (h.open /\ OfDir /\ h.plain /\ h.listed > 0 /\ op.name \in ListOps) =>
        /\ IsPrefixOf(h.got, Entries)
        /\ (NoInjected /\ Len(Returned) = op.count) =>
            /\ Cursor \in DOMAIN h.stream
            /\ h.stream[Cursor].name = Returned[Len(Returned)]

\* the last read of the listing found the stream at its end
AtEnd ==
    /\ calls # <<>>
    /\ calls[Len(calls)] = Call("ReadDir", h.path, NoErr)
    /\ h.pos = Len(h.stream)
    /\ Cardinality(GoodReads) > Len(ret.list)

\* C6: in the two-capability variant, a listing with n > 0 returns io.EOF
\* exactly when the stream ended before the call had collected n entries,
\* and nil when it collected n; so with n > 0 an empty list never comes
\* with a nil error; with n <= 0 the end of the stream gives a nil error.
C6_EndOfStream ==
    (op.name \in ListOps /\ h.variant = "A" /\ h.dir) =>
        /\ op.count > 0 =>
            /\ ret.err = NewErr(IoEOF) <=> (AtEnd /\ Len(ret.list) < op.count)
            /\ Len(ret.list) = op.count => ret.err = NoErr
            /\ ret.list = <<>> => ret.err # NoErr
        /\ (op.count <= 0 /\ NoInjected) => (ret.err = NoErr /\ AtEnd)

\* a second listing that found the stream at its end after an entry
C6_Witness ==
    /\ op.name \in ListOps
    /\ h.variant = "A"
    /\ h.listed = 2
    /\ op.count = 2
    /\ Len(ret.list) = 1
    /\ ret.err = NewErr(IoEOF)

\* the calls of the last listing that failed for an entry: a read of the
\* stream, or the Statx of the transform
EntryFailures ==
    {i \in DOMAIN calls : calls[i].err # NoErr /\ calls[i].fn \in {"ReadDir", "Statx"}}

\* the entries the last listing had read when call i failed, the one that
\* failed in the transform left out
ReadBefore(i) ==
    LET n == Cardinality({j \in GoodReads : j < i})
        from == IF h.variant = "A" THEN h.pos - n ELSE 0
    IN  SubSeq(h.stream, from + 1,
               from + (IF calls[i].fn = "Statx" THEN n - 1 ELSE n))

\* what the listing of each variant makes of the entries it read
Kept(stream) == IF h.variant = "A" THEN NamesOf(Real(stream)) ELSE NamesOf(stream)

\* C7: when the read of an entry, or the transform of one, fails in a
\* listing, the listing returns the entries it had collected, in the
\* order collected, with an error that wraps the failure; the list is not
\* nil and no read follows the failure.
C7_PartialList ==
    (op.name \in ListOps) =>
        \A i \in EntryFailures :
            /\ ret.err # NoErr
            /\ calls[i].err.wraps \subseteq ret.err.wraps
            /\ ~ret.isNil
            /\ Returned = Kept(ReadBefore(i))
            /\ \A j \in DOMAIN calls : j > i => calls[j].fn = "CloseDir"

\* a read failed after an entry was collected
C7_Witness ==
    /\ op.name \in ListOps
    /\ \E i \in EntryFailures : calls[i].fn = "ReadDir"
    /\ Len(ret.list) > 0

----------------------------------------------------------------------------
(* Properties of the handles *)

\* the closes that failed
FailedCloses == {i \in DOMAIN calls : calls[i].err # NoErr}

\* C8: Close closes every populated capability once, the file first, also
\* when the close of the file fails; it returns nil exactly when no close
\* failed, the failure when one failed, and an error that wraps both
\* failures when both failed.
C8_CloseAll ==
    (op.name = "Close") =>
        /\ [i \in DOMAIN calls |-> calls[i].fn] =
                (IF h.file THEN <<"CloseFile">> ELSE <<>>)
                    \o (IF h.dir THEN <<"CloseDir">> ELSE <<>>)
        /\ ret.err = NoErr <=> FailedCloses = {}
        /\ \A i \in FailedCloses :
            /\ Cardinality(FailedCloses) = 1 => ret.err = calls[i].err
            /\ calls[i].err.wraps \subseteq ret.err.wraps

\* both closes failed, each for its own reason
C8_Witness ==
    /\ op.name = "Close"
    /\ Len(calls) = 2
    /\ calls[1].err # NoErr
    /\ calls[2].err # NoErr
    /\ calls[1].err # calls[2].err

OpenOps == {"Create", "Open", "OpenFile"}

\* C9 as stated: a handle Create, Open or OpenFile returns holds one
\* capability, the directory capability when the target is a directory
\* and the file capability when it is not.
C9_AsStated ==
    (op.name \in OpenOps /\ ret.err = NoErr) =>
        /\ h.file # h.dir
        /\ h.dir <=> OfDir

\* C9: a handle Create, Open or OpenFile returns always holds the file
\* capability; in the two-capability variant it holds the directory
\* capability as well exactly when the target is a directory, and in the
\* other variant never.
C9_Capabilities ==
    (op.name \in OpenOps /\ ret.err = NoErr) =>
        /\ h.open
        /\ h.file
        /\ h.dir <=> (h.variant = "A" /\ OfDir)

\* a directory was opened in the two-capability variant
C9_Witness ==
    /\ op.name \in OpenOps
    /\ ret.err = NoErr
    /\ h.variant = "A"
    /\ OfDir

----------------------------------------------------------------------------
(* Properties of Rename *)

Renamed == op.name = "Rename" /\ ret.err = NoErr

\* what Stat gives for the two paths right after the Rename
StatOld == Stat(fs, op.path, NoFault)

StatNew == Stat(fs, op.path2, NoFault)

\* C10 as stated: for any paths a and b, after Rename(a, b) returned nil
\* Stat(a) fails with os.ErrNotExist and Stat(b) succeeds.
C10_AsStated ==
    Renamed => (StatOld.err = NotFound /\ StatNew.err = NoErr)

\* no component of the path named a symbolic link before the call
LinkFree(p) == \A n \in 1..Len(p) : pre[SubSeq(p, 1, n)].kind # "lnk"

\* C10: for different paths a and b none of whose components names a
\* symbolic link, after Rename(a, b) returned nil Stat(a) fails with
\* os.ErrNotExist and Stat(b) succeeds, with the kind of what was at a.
C10_RenameStat ==
    (Renamed /\ op.path # op.path2 /\ LinkFree(op.path) /\ LinkFree(op.path2)) =>
        /\ StatOld.err = NotFound
        /\ StatNew.err = NoErr
        /\ StatNew.kind = pre[op.path].kind

\* a directory with something in it was renamed
C10_Witness ==
    /\ Renamed
    /\ op.path # op.path2
    /\ LinkFree(op.path)
    /\ LinkFree(op.path2)
    /\ pre[op.path].kind = "dir"
    /\ Children(pre, op.path) # {}

----------------------------------------------------------------------------
(* Properties of reading and writing *)

\* the caller has created a file, written it, closed it, opened it again
\* and read it, each step with a nil error but for the read
TripDone == data.trip.stage = 5 /\ op.name = "Read"

\* C11: Create(p), Write(bytes), Close, Open(p), Read gives the bytes
\* written, as many as the buffer of the Read takes, whatever p held before
\* Create; a buffer that takes them all gets them all and none besides.
C11_RoundTrip ==
    (TripDone /\ NoInjected) =>
        /\ ret.list = SubSeq(data.trip.wrote, 1, Min(op.count, Len(data.trip.wrote)))
        /\ op.count >= Len(data.trip.wrote) => ret.list = data.trip.wrote
        /\ ret.err = IF op.count > 0 /\ data.trip.wrote = <<>> THEN NewErr(IoEOF) ELSE NoErr

\* the file held more bytes, and other ones, than were written, and the
\* buffer of the Read had room for more
C11_Witness ==
    /\ TripDone
    /\ NoInjected
    /\ data.trip.wrote # <<>>
    /\ Len(data.trip.had) > Len(data.trip.wrote)
    /\ data.trip.had[1] # data.trip.wrote[1]
    /\ op.count > Len(data.trip.wrote)

----------------------------------------------------------------------------
(* Properties of the errors *)

\* the remote client gave the error code to a call of the last operation
RemoteSaid(code) == \E i \in DOMAIN calls : Is(calls[i].err, code)

FsOps == {"Create", "Open", "OpenFile", "Mkdir", "MkdirAll", "Remove",
          "RemoveAll", "Rename", "Stat", "Chmod", "Chown"}

\* C12 as stated: when the remote client signals not-found to an operation
\* of the filesystem adapter the caller gets an error that matches
\* os.ErrNotExist, and os.ErrExist when the remote signals already-exists.
C12_AsStated ==
    (op.name \in FsOps) =>
        /\ RemoteSaid(ENOENT) => Is(ret.err, OsErrNotExist)
        /\ RemoteSaid(EEXIST) => Is(ret.err, OsErrExist)

----------------------------------------------------------------------------
(* Properties of the handle's capabilities *)

\* the handle was opened on something that is no directory: it holds no
\* directory capability in either variant
NoDirCapability == ~h.dir /\ ~OfDir

\* C13 as stated (the directory capability): Readdir and Readdirnames on a
\* handle without the directory capability fail with ErrDirNil, return no
\* entries, make no remote call and leave the handle's cursor and the
\* remote tree as they were.
C13_AsStated ==
    (op.name \in ListOps /\ NoDirCapability) =>
        /\ ret.err = NewErr(ErrDirNil)
        /\ ret.list = <<>>
        /\ calls = <<>>
        /\ h.pos = 0
        /\ fs = pre

----------------------------------------------------------------------------
(* Properties of the remote handles *)

\* the remote handles the last operation opened and did not close
LeftOpen ==
    {i \in DOMAIN calls :
        /\ calls[i].fn \in {"Open", "OpenDir"}
        /\ calls[i].err = NoErr
        /\ ~\E j \in DOMAIN calls :
            /\ j > i
            /\ calls[j].fn = (IF calls[i].fn = "Open" THEN "CloseFile" ELSE "CloseDir")
            /\ calls[j].path = calls[i].path}

\* C14 as stated (the opens): when Create, Open or OpenFile returns an
\* error, a failing Fstatx or OpenDir after the file was opened included,
\* no remote handle it opened is left open.
C14_AsStated ==
    (op.name \in OpenOps /\ ret.err # NoErr) => LeftOpen = {}

----------------------------------------------------------------------------
(* Properties of what RemoveAll touches *)

\* where the node that p named before the call lies in the tree, a link in
\* the last component not followed
Subtree ==
    LET r == Resolve(pre, op.path, FALSE)
    IN  IF r.err = NoErr THEN r.path ELSE op.path

\* C15 as stated: RemoveAll(p) removes p and the nodes below p and nothing
\* else: every node outside the subtree of p is as it was, also when p
\* itself or an entry below it is a symbolic link to a directory outside
\* the subtree.
C15_AsStated ==
    (op.name = "RemoveAll") =>
        \A q \in Paths : ~Under(Subtree, q) => fs[q] = pre[q]

====
